---- MODULE Spec2Model ----
(***************************************************************************)
(* Model of syno_fan_control.py: one FanController.run() per invocation,   *)
(* the state file carrying the controller state between invocations.       *)
(*                                                                         *)
(* Representation.  A Python Optional is a sequence of length 0 (None) or  *)
(* 1 (the value).  Temperatures are held in millidegrees Celsius, so that  *)
(* the sensor files' int(raw) / 1000 is exact.  Time is in seconds.        *)
(***************************************************************************)
EXTENDS Integers, Sequences, FiniteSets, TLC

VARIABLES
    clock,          \* time.time()
    disk,           \* STATE_FILE: <<>> when missing, else <<JSON object>>
    pc,             \* position of the current invocation of run()
    state,          \* self.state
    sid,            \* self.sid
    temp,           \* run(): temp (Optional)
    source,         \* run(): source (Optional)
    desired_mode,   \* run(): desired_mode (Optional until step 4)
    mode_changed,   \* run(): mode_changed
    \* ---- observation of the run (history, not program state) ----
    loaded,         \* self.state right after load_state()
    queried,        \* temperature sources queried by this run, in order
    apply_call,     \* <<>> or <<[mode, at]>>: the external apply call of this run
    apply_result,   \* "none" | "ok" | "fail" | "raise"
    elapsed_run,    \* <<>> or <<current_time - last_change>> at line 267
    elapsed_gov,    \* <<>> or <<elapsed at the governor's last clock reading>>
    status,         \* <<>> or <<the status line printed>>
    raised,         \* an exception reached run()'s except clause
    saves,          \* calls of save_state() in this run
    save_result,    \* "none" | "ok" | "fail"
    file_read,      \* STATE_FILE as load_state() found it
    opened,         \* sensor files opened by get_temperature()
    answers,        \* <<>> or <<the answers the temperature sources will give>>
    tmp,            \* STATE_FILE + ".tmp", like disk
    \* ---- observation across runs ----
    last_ok,        \* <<>> or <<time stamped for the last successful application>>,
                    \* <<>> again when the run that made it failed to save
    gap,            \* <<>> or <<seconds between the last two successful applications>>
    prev_failed     \* <<>> or <<mode>>: the previous run's apply call failed

vars == <<clock, disk, pc, state, sid, temp, source, desired_mode,
          mode_changed, loaded, queried, apply_call, apply_result,
          elapsed_run, elapsed_gov, status, raised, saves, save_result,
          file_read, opened, answers, tmp, last_ok, gap, prev_failed>>

run_vars == <<state, sid, temp, source, desired_mode, mode_changed,
              loaded, queried, apply_call, apply_result, elapsed_run,
              elapsed_gov, status, raised, saves, save_result, file_read, opened>>

hist_vars == <<last_ok, gap, prev_failed>>

env_vars == <<answers, tmp>>

----------------------------------------------------------------------------
(* Configuration *)

TEMP_QUIET_MAX == 40
TEMP_COOL_MAX == 55
QUIET_MODE == "quietfan"
COOL_MODE == "coolfan"
FULL_MODE == "fullfan"
FORCE_REFRESH_INTERVAL == 300
MIN_MODE_CHANGE_INTERVAL == 60

None == <<>>
Some(v) == <<v>>

Modes == {QUIET_MODE, COOL_MODE, FULL_MODE}

----------------------------------------------------------------------------
(* Bounds of the model *)

\* The clock at the first invocation (a unix time: far above both intervals).
T0 == 1000
\* Largest number of candidate sensor files under /sys/class/hwmon.
MaxFiles == 2

\* Instants at which the clock is observed, as offsets from T0.
Offsets == {0, 1, 60, 301}
Times == {T0 + o : o \in Offsets}

\* Temperatures the API sources report (millidegrees): data.cpu_temp and
\* data.system_temp of the thermal query, data.temp of the system-info query.
CpuTemps == {0, 39999, 40000}
SystemTemps == {54999}
InfoTemps == {55000}
\* Raw contents of a sensor file (millidegrees).
FileRaws == {10000, 62000, 110000}

----------------------------------------------------------------------------
(* FanController.__init__: the default state *)

DefaultState ==
    [last_mode |-> None, last_change |-> 0, last_temp |-> None, temp_source |-> None]

----------------------------------------------------------------------------
(* json.dump / json.load of the state dict.  A JSON value is <<"null">>,   *)
(* <<"number", n>> or <<"string", s>>.                                     *)

\* The Python value of "last_change" when it is not a number (None, loaded
\* from a JSON null): time.time() - last_change raises TypeError on it.
NotANumber == 0 - 1
is_number(v) == v # NotANumber

py_to_json(k, v) ==
    IF k = "last_change"
    THEN IF is_number(v) THEN <<"number", v>> ELSE <<"null">>
    ELSE IF v = None THEN <<"null">>
    ELSE IF k = "last_temp" THEN <<"number", v[1]>>
    ELSE <<"string", v[1]>>

json_to_py(k, j) ==
    IF k = "last_change"
    THEN IF j[1] = "number" THEN j[2] ELSE NotANumber
    ELSE IF j[1] = "null" THEN None
    ELSE Some(j[2])

json_dump_lossy(st) == [k \in DOMAIN st \ {"temp_source"} |-> py_to_json(k, st[k])]
json_dump(st) == [k \in DOMAIN st |-> py_to_json(k, st[k])]

json_load(obj) == [k \in DOMAIN obj |-> json_to_py(k, obj[k])]

\* dict.update: the keys of d override those of st.
dict_update(st, d) ==
    [k \in DOMAIN st \cup DOMAIN d |-> IF k \in DOMAIN d THEN d[k] ELSE st[k]]

\* load_state on a fresh controller: self.state.update(json.load(f)) when the
\* file exists, the defaults of __init__ otherwise.  A file of length 2 holds
\* a text that json.load or dict.update rejects: the warning of line 224.
load_state_mut(file) == DefaultState
load_state(file) ==
    IF Len(file) # 1 THEN DefaultState
    ELSE dict_update(DefaultState, json_load(file[1]))

\* save_state: the file after the call; the write to the temporary file or the
\* os.replace may fail, which leaves the file as it was.
save_state(file, st, ok) ==
    IF ok THEN <<json_dump(st)>> ELSE file

----------------------------------------------------------------------------
(* determine_mode *)

determine_mode_mut(t) ==
    IF t <= TEMP_QUIET_MAX * 1000 THEN QUIET_MODE
    ELSE IF t <= TEMP_COOL_MAX * 1000 THEN COOL_MODE
    ELSE FULL_MODE
determine_mode(t) ==
    IF t < TEMP_QUIET_MAX * 1000 THEN QUIET_MODE
    ELSE IF t < TEMP_COOL_MAX * 1000 THEN COOL_MODE
    ELSE FULL_MODE

----------------------------------------------------------------------------
(* The change-rate decisions of run() and set_fan_mode() *)

\* run(): desired_mode != last_mode or current_time - last_change > FORCE_REFRESH_INTERVAL
need_change_eager(desired, st, now) ==
    \/ Some(desired) # st.last_mode
    \/ now - st.last_change >= FORCE_REFRESH_INTERVAL
need_change_norefresh(desired, st, now) ==
    Some(desired) # st.last_mode
need_change(desired, st, now) ==
    \/ Some(desired) # st.last_mode
    \/ now - st.last_change > FORCE_REFRESH_INTERVAL

\* set_fan_mode(): time.time() - last_change < MIN_MODE_CHANGE_INTERVAL
too_recent_never(st, now) == FALSE
too_recent_forward(st, now) ==
    0 <= now - st.last_change /\ now - st.last_change < MIN_MODE_CHANGE_INTERVAL
too_recent_inclusive(st, now) == now - st.last_change <= MIN_MODE_CHANGE_INTERVAL
too_recent_half(st, now) == 2 * (now - st.last_change) < MIN_MODE_CHANGE_INTERVAL
too_recent(st, now) ==
    now - st.last_change < MIN_MODE_CHANGE_INTERVAL

\* set_fan_mode(): the state after the response of the apply call.
apply_update_always(st, mode, now, result) ==
    [st EXCEPT !.last_mode = Some(mode), !.last_change = now]
apply_update_stamp(st, mode, now, result) ==
    IF result = "ok"
    THEN [st EXCEPT !.last_mode = Some(mode), !.last_change = now]
    ELSE [st EXCEPT !.last_change = now]
apply_update(st, mode, now, result) ==
    IF result = "ok"
    THEN [st EXCEPT !.last_mode = Some(mode), !.last_change = now]
    ELSE st

----------------------------------------------------------------------------
(* get_temperature *)

THERMAL_API == <<"SYNO.Core.Hardware.Thermal">>
SYSTEM_API == <<"SYNO.Core.System">>
NO_SOURCE == <<"No temperature source available">>
sysfs_source(i) == <<"sysfs", i>>

\* Answers of the thermal query: the request raises, or it returns a JSON
\* object with "success" and data.cpu_temp / data.system_temp.
ThermalResponses ==
    {[raises |-> TRUE, success |-> FALSE, cpu_temp |-> None, system_temp |-> None],
     [raises |-> FALSE, success |-> FALSE, cpu_temp |-> None, system_temp |-> None]}
    \cup [raises : {FALSE}, success : {TRUE},
          cpu_temp : {None} \cup {Some(t) : t \in CpuTemps},
          system_temp : {None} \cup {Some(t) : t \in SystemTemps}]

\* Answers of the system-info query: data.temp present or not.
SystemResponses ==
    {[raises |-> TRUE, success |-> FALSE, temp |-> None],
     [raises |-> FALSE, success |-> FALSE, temp |-> None]}
    \cup [raises : {FALSE}, success : {TRUE}, temp : {None} \cup {Some(t) : t \in InfoTemps}]

\* A sensor file: None when open() or int() raises, else its integer content.
FileContents == {None} \cup {Some(r) : r \in FileRaws}
FileLists == UNION {[1..n -> FileContents] : n \in 0..MaxFiles}

truthy(o) == o # None /\ o[1] # 0

\* j["data"].get("cpu_temp") or j["data"].get("system_temp")
thermal_value(th) ==
    IF th.raises \/ ~th.success THEN None
    ELSE IF truthy(th.cpu_temp) THEN th.cpu_temp ELSE th.system_temp

\* j.get("success") and "temp" in j.get("data", {})
system_value(si) ==
    IF si.raises \/ ~si.success THEN None ELSE si.temp

\* The loop over hwmon*/temp*_input, from the i-th candidate on.
\* "opened" counts the files the loop has opened (or tried to).
RECURSIVE scan_files_stop(_, _)
scan_files_stop(files, i) ==
    IF i > Len(files) THEN [temp |-> None, source |-> NO_SOURCE, opened |-> i - 1]
    ELSE IF files[i] = None THEN [temp |-> None, source |-> NO_SOURCE, opened |-> i]
    ELSE IF 10 * 1000 < files[i][1] /\ files[i][1] < 110 * 1000
         THEN [temp |-> files[i], source |-> sysfs_source(i), opened |-> i]
         ELSE [temp |-> None, source |-> NO_SOURCE, opened |-> i]
RECURSIVE scan_files_skip(_, _)
scan_files_skip(files, i) ==
    IF i > Len(files) THEN [temp |-> None, source |-> NO_SOURCE, opened |-> i - 1]
    ELSE IF files[i] = None THEN scan_files_skip(files, i + 1)
    ELSE IF 10 * 1000 < files[i][1] /\ files[i][1] < 110 * 1000
         THEN [temp |-> files[i], source |-> sysfs_source(i), opened |-> i]
         ELSE scan_files_skip(files, i + 1)
RECURSIVE scan_files(_, _)
scan_files(files, i) ==
    IF i > Len(files) THEN [temp |-> None, source |-> NO_SOURCE, opened |-> i - 1]
    ELSE IF files[i] = None THEN [temp |-> None, source |-> NO_SOURCE, opened |-> i]
    ELSE IF 10 * 1000 < files[i][1] /\ files[i][1] < 110 * 1000
         THEN [temp |-> files[i], source |-> sysfs_source(i), opened |-> i]
         ELSE scan_files(files, i + 1)

get_temperature(th, si, files) ==
    IF thermal_value(th) # None
    THEN [temp |-> thermal_value(th), source |-> THERMAL_API,
          queried |-> <<"thermal">>, opened |-> 0]
    ELSE IF system_value(si) # None
    THEN [temp |-> system_value(si), source |-> SYSTEM_API,
          queried |-> <<"thermal", "system">>, opened |-> 0]
    ELSE [temp |-> scan_files(files, 1).temp, source |-> scan_files(files, 1).source,
          queried |-> <<"thermal", "system", "sysfs">>,
          opened |-> scan_files(files, 1).opened]

----------------------------------------------------------------------------
(* The state machine.  Assumptions on the environment: runs do not overlap *)
(* (the scheduler starts one when the previous has ended), the clock never *)
(* goes back, only save_state writes the state file, and load_state can    *)
(* read back what save_state wrote.  A save may fail.                      *)

Init ==
    /\ clock = T0
    /\ disk = <<>>
    /\ pc = "idle"
    /\ state = DefaultState
    /\ sid = None
    /\ temp = None
    /\ source = None
    /\ desired_mode = None
    /\ mode_changed = FALSE
    /\ loaded = DefaultState
    /\ queried = <<>>
    /\ apply_call = None
    /\ apply_result = "none"
    /\ elapsed_run = None
    /\ elapsed_gov = None
    /\ status = None
    /\ raised = FALSE
    /\ saves = 0
    /\ save_result = "none"
    /\ file_read = <<>>
    /\ opened = 0
    /\ answers = None
    /\ tmp = <<>>
    /\ last_ok = None
    /\ gap = None
    /\ prev_failed = None

\* Time passes.  The clock is read at lines 260, 172 and 198 only: time that
\* passes between two runs or in a run before line 260 passes here at "login",
\* and time that passes after the last reading of a run counts for the next.
Tick ==
    /\ pc \in {"login", "set_fan_mode", "apply"}
    /\ \E t \in Times : t > clock /\ clock' = t
    /\ UNCHANGED <<disk, pc, run_vars, hist_vars, env_vars>>

\* main(): FanController() and the first statement of run(), load_state().
Start ==
    /\ pc \in {"idle", "done", "crashed"}
    /\ pc' = "login"
    /\ state' = load_state(disk)
    /\ loaded' = load_state(disk)
    /\ sid' = None
    /\ temp' = None
    /\ source' = None
    /\ desired_mode' = None
    /\ mode_changed' = FALSE
    /\ queried' = <<>>
    /\ apply_call' = None
    /\ apply_result' = "none"
    /\ elapsed_run' = None
    /\ elapsed_gov' = None
    /\ status' = None
    /\ raised' = FALSE
    /\ saves' = 0
    /\ save_result' = "none"
    /\ file_read' = disk
    /\ opened' = 0
    /\ gap' = None
    /\ prev_failed' = IF apply_result \in {"fail", "raise"} THEN desired_mode ELSE None
    /\ UNCHANGED <<clock, disk, last_ok, env_vars>>

\* Where run() continues when login() raises: the except clause, then finally.
after_login_error_mut == "done"
after_login_error_continue == "get_temperature"
after_login_error == "save"

\* Step 1, login() returns the session id.
LoginOk ==
    /\ pc = "login"
    /\ sid' = Some("sid")
    /\ pc' = "get_temperature"
    /\ UNCHANGED <<clock, disk, state, temp, source, desired_mode, mode_changed,
                   loaded, queried, apply_call, apply_result, elapsed_run, elapsed_gov,
                   status, raised, saves, save_result, file_read, opened, hist_vars, env_vars>>

\* Step 1, login() raises RuntimeError.
LoginFail ==
    /\ pc = "login"
    /\ raised' = TRUE
    /\ pc' = after_login_error
    /\ UNCHANGED <<clock, disk, state, sid, temp, source, desired_mode,
                   mode_changed, loaded, queried, apply_call, apply_result, elapsed_run,
                   elapsed_gov, status, saves, save_result, file_read, opened, hist_vars, env_vars>>

\* The state after lines 250-251.
record_reading_mut(st, t, src) == st
record_reading(st, t, src) ==
    [st EXCEPT !.last_temp = t, !.temp_source = Some(src)]

\* The state after lines 245-251: the early return comes before the reading
\* is recorded.
after_reading_early(st, r) == record_reading(st, r.temp, r.source)
after_reading(st, r) ==
    IF r.temp = None THEN st ELSE record_reading(st, r.temp, r.source)

\* Steps 2 to 4 with the answers th, si, files of the three sources:
\* get_temperature(), the early return, get_fan_token(), determine_mode().
\* get_fan_token() swallows every failure and only sets self.token, an extra
\* parameter of the apply request: it has no part in what follows.
GetTemperatureWith(th, si, files) ==
    LET r == get_temperature(th, si, files) IN
      /\ queried' = r.queried
      /\ opened' = r.opened
      /\ temp' = r.temp
      /\ source' = Some(r.source)
      /\ state' = after_reading(state, r)
      /\ IF r.temp = None
         THEN /\ pc' = "save"
              /\ UNCHANGED desired_mode
         ELSE /\ desired_mode' = Some(determine_mode(r.temp[1]))
              /\ pc' = "decide"
      /\ UNCHANGED <<clock, disk, sid, mode_changed, loaded, apply_call, apply_result,
                     elapsed_run, elapsed_gov, status, raised, saves, save_result,
                     file_read, hist_vars, env_vars>>

\* Steps 2 to 4.  A source that is not queried has no answer to choose.
GetTemperature ==
    /\ pc = "get_temperature"
    /\ answers = None
    /\ \E th \in ThermalResponses :
       \E si \in IF thermal_value(th) # None THEN {CHOOSE x \in SystemResponses : TRUE}
                 ELSE SystemResponses :
       \E files \in IF thermal_value(th) # None \/ system_value(si) # None THEN {<<>>}
                    ELSE FileLists :
         GetTemperatureWith(th, si, files)

\* Step 5: current_time = time.time() and the test of lines 266-268.  The
\* subtraction of line 267 is evaluated when desired_mode == last_mode, and
\* raises TypeError, caught at line 280, when last_change is not a number.
Decide ==
    /\ pc = "decide"
    /\ IF is_number(state.last_change)
       THEN /\ elapsed_run' = Some(clock - state.last_change)
            /\ elapsed_gov' = Some(clock - state.last_change)
            /\ pc' = IF need_change(desired_mode[1], state, clock)
                     THEN "set_fan_mode" ELSE "status"
            /\ UNCHANGED raised
       ELSE /\ UNCHANGED <<elapsed_run, elapsed_gov>>
            /\ raised' = (desired_mode = state.last_mode)
            /\ pc' = IF desired_mode = state.last_mode THEN "save" ELSE "set_fan_mode"
    /\ UNCHANGED <<clock, disk, state, sid, temp, source, desired_mode,
                   mode_changed, loaded, queried, apply_call, apply_result, status,
                   saves, save_result, file_read, opened, hist_vars, env_vars>>

\* set_fan_mode(), lines 172-192: the throttle test on a new time.time(), then
\* the request of the apply call.  Line 172 is outside the try of line 186: its
\* TypeError, when last_change is not a number, goes to run()'s except clause.
SetFanMode ==
    /\ pc = "set_fan_mode"
    /\ IF ~is_number(state.last_change)
       THEN /\ raised' = TRUE
            /\ pc' = "save"
            /\ UNCHANGED <<elapsed_gov, apply_call>>
       ELSE /\ elapsed_gov' = Some(clock - state.last_change)
            /\ UNCHANGED raised
            /\ IF too_recent(state, clock)
               THEN /\ pc' = "status"
                    /\ UNCHANGED apply_call
               ELSE /\ pc' = "apply"
                    /\ apply_call' = Some([mode |-> desired_mode[1], at |-> clock])
    /\ UNCHANGED <<clock, disk, state, sid, temp, source, desired_mode,
                   mode_changed, loaded, queried, apply_result, elapsed_run, status,
                   saves, save_result, file_read, opened, hist_vars, env_vars>>

\* set_fan_mode(), lines 193-206: the answer of the apply call.
ApplyResponse ==
    /\ pc = "apply"
    /\ \E result \in {"ok", "fail", "raise"} :
         /\ apply_result' = result
         /\ state' = apply_update(state, desired_mode[1], clock, result)
         /\ mode_changed' = (result = "ok")
         /\ gap' = IF result = "ok" /\ last_ok # None
                   THEN Some(apply_call[1].at - last_ok[1])
                   ELSE None
    /\ pc' = "status"
    /\ UNCHANGED <<clock, disk, sid, temp, source, desired_mode, loaded, queried,
                   apply_call, elapsed_run, elapsed_gov, status, raised, saves,
                   save_result, file_read, opened, last_ok, prev_failed, env_vars>>

\* The status line of lines 272-278.
status_line_desired(st, t, src, desired, changed) ==
    [temp |-> t, source |-> src, current_mode |-> Some(desired),
     desired_mode |-> desired, changed |-> changed]
status_line(st, t, src, desired, changed) ==
    [temp |-> t, source |-> src, current_mode |-> st.last_mode,
     desired_mode |-> desired, changed |-> changed]

Status ==
    /\ pc = "status"
    /\ status' = Some(status_line(state, temp[1], source[1], desired_mode[1], mode_changed))
    /\ pc' = "save"
    /\ UNCHANGED <<clock, disk, state, sid, temp, source, desired_mode,
                   mode_changed, loaded, queried, apply_call, apply_result, elapsed_run,
                   elapsed_gov, raised, saves, save_result, file_read, opened, hist_vars, env_vars>>

\* print() of the status line raises (the degree sign cannot be encoded for
\* standard output, or standard output is closed): the except clause of run(),
\* then finally.
StatusRaises ==
    /\ pc = "status"
    /\ raised' = TRUE
    /\ pc' = "save"
    /\ UNCHANGED <<clock, disk, state, sid, temp, source, desired_mode,
                   mode_changed, loaded, queried, apply_call, apply_result, elapsed_run,
                   elapsed_gov, status, saves, save_result, file_read, opened, hist_vars, env_vars>>

\* finally: save_state(), which succeeds or logs a warning.
SaveState ==
    /\ pc = "save"
    /\ \E ok \in BOOLEAN :
         /\ disk' = save_state(disk, state, ok)
         /\ save_result' = IF ok THEN "ok" ELSE "fail"
         /\ last_ok' = IF apply_result # "ok" THEN last_ok
                       ELSE IF ok THEN Some(state.last_change)
                       ELSE None
    /\ saves' = saves + 1
    /\ pc' = "done"
    /\ UNCHANGED <<clock, state, sid, temp, source, desired_mode, mode_changed,
                   loaded, queried, apply_call, apply_result, elapsed_run, elapsed_gov,
                   status, raised, file_read, opened, gap, prev_failed, env_vars>>

Next ==
    \/ Tick
    \/ Start
    \/ LoginOk
    \/ LoginFail
    \/ GetTemperature
    \/ Decide
    \/ SetFanMode
    \/ ApplyResponse
    \/ Status
    \/ StatusRaises
    \/ SaveState

Spec == Init /\ [][Next]_vars

----------------------------------------------------------------------------
(* save_state step by step, with the process crashing at any point of it.  *)
(* A file holds <<>> (no file), <<JSON object>>, or a text that is no JSON  *)
(* document: EMPTY after open(tmp, "w"), PARTIAL while json.dump's output   *)
(* is only partly in the file.  fs is the pair of STATE_FILE and its .tmp.  *)

EMPTY == <<"text", "">>
PARTIAL == <<"text", "partial">>

\* open(tmp, "w"): creates or truncates the temporary file.
open_tmp(fs) == [fs EXCEPT !.tmp = EMPTY]

\* json.dump(self.state, f), part of the output written.
dump_in_place(fs, st) == [fs EXCEPT !.file = PARTIAL]
dump_tmp(fs, st) == [fs EXCEPT !.tmp = PARTIAL]

\* The end of the with block: the whole output is in the temporary file.
close_tmp(fs, st) == [fs EXCEPT !.tmp = <<json_dump(st)>>]

\* os.replace(tmp, STATE_FILE): one atomic rename.
replace_tmp(fs) == [file |-> fs.tmp, tmp |-> <<>>]

SavePcs == {"save", "save_dump", "save_close", "save_replace"}

SaveOpen ==
    /\ pc = "save"
    /\ tmp' = open_tmp([file |-> disk, tmp |-> tmp]).tmp
    /\ saves' = saves + 1
    /\ pc' = "save_dump"
    /\ UNCHANGED <<clock, disk, state, sid, temp, source, desired_mode, mode_changed,
                   loaded, queried, apply_call, apply_result, elapsed_run, elapsed_gov,
                   status, raised, save_result, file_read, opened, hist_vars, answers>>

SaveDump ==
    /\ pc = "save_dump"
    /\ tmp' = dump_tmp([file |-> disk, tmp |-> tmp], state).tmp
    /\ disk' = dump_tmp([file |-> disk, tmp |-> tmp], state).file
    /\ pc' = "save_close"
    /\ UNCHANGED <<clock, state, sid, temp, source, desired_mode, mode_changed,
                   loaded, queried, apply_call, apply_result, elapsed_run, elapsed_gov,
                   status, raised, saves, save_result, file_read, opened, hist_vars,
                   answers>>

SaveClose ==
    /\ pc = "save_close"
    /\ tmp' = close_tmp([file |-> disk, tmp |-> tmp], state).tmp
    /\ pc' = "save_replace"
    /\ UNCHANGED <<clock, disk, state, sid, temp, source, desired_mode, mode_changed,
                   loaded, queried, apply_call, apply_result, elapsed_run, elapsed_gov,
                   status, raised, saves, save_result, file_read, opened, hist_vars,
                   answers>>

SaveReplace ==
    /\ pc = "save_replace"
    /\ disk' = replace_tmp([file |-> disk, tmp |-> tmp]).file
    /\ tmp' = replace_tmp([file |-> disk, tmp |-> tmp]).tmp
    /\ save_result' = "ok"
    /\ last_ok' = IF apply_result = "ok" THEN Some(state.last_change) ELSE last_ok
    /\ pc' = "done"
    /\ UNCHANGED <<clock, state, sid, temp, source, desired_mode, mode_changed,
                   loaded, queried, apply_call, apply_result, elapsed_run, elapsed_gov,
                   status, raised, saves, file_read, opened, gap, prev_failed, answers>>

\* open(), the write or os.replace raises: the warning of line 234.
SaveFails ==
    /\ pc \in SavePcs
    /\ saves' = IF pc = "save" THEN saves + 1 ELSE saves
    /\ save_result' = "fail"
    /\ last_ok' = IF apply_result = "ok" THEN None ELSE last_ok
    /\ pc' = "done"
    /\ UNCHANGED <<clock, disk, state, sid, temp, source, desired_mode, mode_changed,
                   loaded, queried, apply_call, apply_result, elapsed_run, elapsed_gov,
                   status, raised, file_read, opened, gap, prev_failed, env_vars>>

\* The process is killed inside save_state.
Crash ==
    /\ pc \in SavePcs
    /\ last_ok' = IF apply_result = "ok" THEN None ELSE last_ok
    /\ pc' = "crashed"
    /\ UNCHANGED <<clock, disk, state, sid, temp, source, desired_mode, mode_changed,
                   loaded, queried, apply_call, apply_result, elapsed_run, elapsed_gov,
                   status, raised, saves, save_result, file_read, opened, gap,
                   prev_failed, env_vars>>

\* Runs follow each other without the clock moving on: what save_state does
\* to the two files does not depend on the time.
NextCrash ==
    \/ Start
    \/ LoginOk
    \/ LoginFail
    \/ GetTemperature
    \/ Decide
    \/ SetFanMode
    \/ ApplyResponse
    \/ Status
    \/ StatusRaises
    \/ SaveOpen
    \/ SaveDump
    \/ SaveClose
    \/ SaveReplace
    \/ SaveFails
    \/ Crash

SpecCrash == Init /\ [][NextCrash]_vars

----------------------------------------------------------------------------
(* Runs that find a state file the program did not write: a text that is   *)
(* no JSON document, a JSON document that is no object, an object whose   *)
(* "last_change" is null.                                                  *)

NOT_JSON == <<"text", "not json">>
NOT_OBJECT == <<"text", "[1, 2]">>

DamagedFiles ==
    {NOT_JSON, NOT_OBJECT,
     <<[last_mode |-> <<"null">>, last_change |-> <<"null">>,
        last_temp |-> <<"null">>, temp_source |-> <<"null">>]>>}

InitDamaged ==
    /\ clock = T0
    /\ disk \in DamagedFiles
    /\ pc = "idle"
    /\ state = DefaultState
    /\ sid = None
    /\ temp = None
    /\ source = None
    /\ desired_mode = None
    /\ mode_changed = FALSE
    /\ loaded = DefaultState
    /\ queried = <<>>
    /\ apply_call = None
    /\ apply_result = "none"
    /\ elapsed_run = None
    /\ elapsed_gov = None
    /\ status = None
    /\ raised = FALSE
    /\ saves = 0
    /\ save_result = "none"
    /\ file_read = <<>>
    /\ opened = 0
    /\ answers = None
    /\ tmp = <<>>
    /\ last_ok = None
    /\ gap = None
    /\ prev_failed = None

SpecDamaged == InitDamaged /\ [][Next]_vars

----------------------------------------------------------------------------
(* The same runs under a clock that may also be set back between or inside *)
(* runs (time.time() is the wall clock).                                   *)

ClockSet ==
    /\ pc \in {"login", "set_fan_mode", "apply"}
    /\ \E t \in Times : t # clock /\ clock' = t
    /\ UNCHANGED <<disk, pc, run_vars, hist_vars, env_vars>>

NextSkew ==
    \/ ClockSet
    \/ Start
    \/ LoginOk
    \/ LoginFail
    \/ GetTemperature
    \/ Decide
    \/ SetFanMode
    \/ ApplyResponse
    \/ Status
    \/ StatusRaises
    \/ SaveState

SpecSkew == Init /\ [][NextSkew]_vars

----------------------------------------------------------------------------
(* get_temperature on given answers: a first run (no state file) after a   *)
(* successful login, with the answers of the three sources fixed.          *)

Answers == [th : ThermalResponses, si : SystemResponses, files : FileLists]

InitResolver ==
    /\ clock = T0
    /\ disk = <<>>
    /\ pc = "get_temperature"
    /\ state = load_state(<<>>)
    /\ sid = Some("sid")
    /\ temp = None
    /\ source = None
    /\ desired_mode = None
    /\ mode_changed = FALSE
    /\ loaded = load_state(<<>>)
    /\ queried = <<>>
    /\ apply_call = None
    /\ apply_result = "none"
    /\ elapsed_run = None
    /\ elapsed_gov = None
    /\ status = None
    /\ raised = FALSE
    /\ saves = 0
    /\ save_result = "none"
    /\ file_read = <<>>
    /\ opened = 0
    /\ answers \in {Some(a) : a \in Answers}
    /\ tmp = <<>>
    /\ last_ok = None
    /\ gap = None
    /\ prev_failed = None

Resolve ==
    /\ pc = "get_temperature"
    /\ answers # None
    /\ GetTemperatureWith(answers[1].th, answers[1].si, answers[1].files)

SpecResolver == InitResolver /\ [][Resolve]_vars

----------------------------------------------------------------------------
(* Properties *)

\* The state a run has loaded, with the mode and time fields of st.
same_mode_time(st) ==
    st.last_mode = loaded.last_mode /\ st.last_change = loaded.last_change

\* The governor of this run has decided (run() is past line 269).
Governed == pc \in {"status", "save", "done"} /\ elapsed_run # None

\* C1: with a clock that never goes back and the state of a successful
\* application carried to the next runs by the state file (its save
\* succeeded), the request of the next successful application is sent at least
\* MIN_MODE_CHANGE_INTERVAL seconds after the time stamped for the previous one.
C1_MinInterval ==
    gap # None => gap[1] >= MIN_MODE_CHANGE_INTERVAL

C1_Witness ==
    /\ pc = "done"
    /\ apply_result = "ok"
    /\ gap = Some(MIN_MODE_CHANGE_INTERVAL)

\* C2: last_mode and last_change differ from the loaded ones only after an
\* apply call that reported success; when the call fails or raises, the state
\* handed to save_state, and the file it writes, have the loaded mode and time.
C2_OnlyOnSuccess ==
    /\ ~same_mode_time(state) => apply_result = "ok"
    /\ apply_result \in {"fail", "raise"} /\ save_result = "ok"
          => same_mode_time(load_state(disk))

C2_Witness ==
    /\ pc = "done"
    /\ apply_result = "raise"
    /\ save_result = "ok"
    /\ loaded.last_mode # None
    /\ desired_mode # loaded.last_mode

\* C3: when the temperature resolves, the desired mode is the loaded last_mode
\* and the time since last_change read at line 260 is at most
\* FORCE_REFRESH_INTERVAL, the run makes no apply call and leaves last_mode and
\* last_change as loaded.
C3_SteadyState ==
    (/\ elapsed_run # None
     /\ desired_mode = loaded.last_mode
     /\ elapsed_run[1] <= FORCE_REFRESH_INTERVAL)
    => /\ apply_call = None
       /\ same_mode_time(state)
       /\ save_result = "ok" => same_mode_time(load_state(disk))

C3_Witness ==
    /\ pc = "done"
    /\ save_result = "ok"
    /\ desired_mode = loaded.last_mode
    /\ elapsed_run = Some(FORCE_REFRESH_INTERVAL)

\* C4: when login succeeds, the temperature resolves and the time since
\* last_change read at line 260 exceeds FORCE_REFRESH_INTERVAL, the run makes
\* the apply call with the desired mode, also when that is the loaded last_mode.
C4_ForcedRefresh ==
    (Governed /\ elapsed_run[1] > FORCE_REFRESH_INTERVAL)
    => /\ apply_call # None
       /\ apply_call[1].mode = desired_mode[1]

C4_Witness ==
    /\ pc = "done"
    /\ desired_mode = loaded.last_mode
    /\ elapsed_run = Some(FORCE_REFRESH_INTERVAL + 1)
    /\ apply_call # None

\* C5: when the time since last_change is below MIN_MODE_CHANGE_INTERVAL at
\* the governor's last reading of the clock (line 172, or line 260 when
\* set_fan_mode is not entered), the run makes no apply call whatever the
\* desired mode, keeps last_mode and last_change as loaded, and sets last_temp
\* and temp_source to the new reading; so does the file it saves.
C5_Throttle ==
    (Governed /\ elapsed_gov[1] < MIN_MODE_CHANGE_INTERVAL)
    => /\ apply_call = None
       /\ state = [loaded EXCEPT !.last_temp = temp, !.temp_source = source]
       /\ save_result = "ok" => load_state(disk) = state

C5_Witness ==
    /\ pc = "done"
    /\ save_result = "ok"
    /\ elapsed_gov # None
    /\ elapsed_gov[1] < MIN_MODE_CHANGE_INTERVAL
    /\ loaded.last_mode = Some(COOL_MODE)
    /\ desired_mode = Some(FULL_MODE)
    /\ loaded.last_temp # temp
    /\ apply_call = None

\* C6: after a run whose apply call failed, the next run that resolves to the
\* same desired mode makes the apply call again with that mode; and an apply
\* call that succeeds leaves last_mode equal to the desired mode, in the state
\* and in the file saved from it.
C6_RetryAfterFailure ==
    /\ (Governed /\ prev_failed # None /\ desired_mode = prev_failed)
          => (apply_call # None /\ apply_call[1].mode = desired_mode[1])
    /\ apply_result = "ok" => state.last_mode = desired_mode
    /\ apply_result = "ok" /\ save_result = "ok"
          => load_state(disk).last_mode = desired_mode

C6_Witness ==
    /\ pc = "done"
    /\ prev_failed # None
    /\ desired_mode = prev_failed
    /\ apply_result = "ok"
    /\ save_result = "ok"
    /\ apply_call[1].at - loaded.last_change = MIN_MODE_CHANGE_INTERVAL

\* C7: determine_mode gives Quiet below 40 degrees, Cool from 40 up to but not
\* including 55, Full from 55 on; 40 gives Cool and 55 gives Full.  It has a
\* value for every reading, and the controller state after it is the loaded
\* state with the reading of lines 250-251 and nothing else.
C7_Classifier ==
    desired_mode # None
    => /\ temp[1] < 40000 => desired_mode = Some(QUIET_MODE)
       /\ (40000 <= temp[1] /\ temp[1] < 55000) => desired_mode = Some(COOL_MODE)
       /\ temp[1] >= 55000 => desired_mode = Some(FULL_MODE)
       /\ pc = "decide" => state = [loaded EXCEPT !.last_temp = temp, !.temp_source = source]

C7_Witness ==
    /\ temp = Some(40000)
    /\ desired_mode = Some(COOL_MODE)

\* C8: a run calls save_state exactly once, as its last step, on every exit
\* path: before the end of the run there is no call, at the end there is one.
C8_SaveOnce ==
    /\ pc = "done" => saves = 1
    /\ pc # "done" => saves = 0

C8_Witness ==
    /\ pc = "done"
    /\ saves = 1
    /\ raised
    /\ apply_result = "fail"

\* The "last_change" member of the state file, 0 while there is no file.
file_last_change(file) ==
    IF file = <<>> THEN 0 ELSE file[1]["last_change"][2]

\* C9: a save never lowers last_change in the state file, and raises it only
\* in a run whose apply call succeeded.
C9_Monotone ==
    [][disk' # disk =>
         /\ file_last_change(disk') >= file_last_change(disk)
         /\ file_last_change(disk') > file_last_change(disk) => apply_result = "ok"]_vars

C9_Witness ==
    /\ pc = "done"
    /\ save_result = "ok"
    /\ loaded.last_change > 0
    /\ file_last_change(disk) > loaded.last_change

\* C10: a run whose login fails queries no temperature source and makes no
\* apply call, and the state it saves is the state it loaded, in all four
\* fields.
C10_LoginFailure ==
    (pc \in {"save", "done"} /\ sid = None)
    => /\ queried = <<>>
       /\ temp = None
       /\ apply_call = None
       /\ state = loaded
       /\ save_result = "ok" => disk = <<json_dump(loaded)>>

C10_Witness ==
    /\ pc = "done"
    /\ sid = None
    /\ raised
    /\ save_result = "ok"
    /\ loaded.last_mode # None
    /\ loaded.last_temp # None

\* C11: a run in which login succeeds and all three sources are exhausted
\* without a reading classifies no mode and makes no apply call, and the state
\* it saves is the state it loaded, in all four fields.
C11_NoSource ==
    (pc \in {"save", "done"} /\ sid # None /\ temp = None)
    => /\ queried = <<"thermal", "system", "sysfs">>
       /\ desired_mode = None
       /\ apply_call = None
       /\ state = loaded
       /\ save_result = "ok" => disk = <<json_dump(loaded)>>

C11_Witness ==
    /\ pc = "done"
    /\ sid # None
    /\ temp = None
    /\ queried = <<"thermal", "system", "sysfs">>
    /\ save_result = "ok"
    /\ loaded.last_temp # None
    /\ loaded.temp_source # None

\* What the answers mean, read off the claim: a usable thermal or system-info
\* answer, and a plausible sensor value (value / 1000 strictly between 10 and 110).
Resolved == answers # None /\ pc # "get_temperature"
ThermalUsable(th) ==
    /\ ~th.raises
    /\ th.success
    /\ (th.cpu_temp # None /\ th.cpu_temp # Some(0)) \/ th.system_temp # None
ThermalReading(th) ==
    IF th.cpu_temp # None /\ th.cpu_temp # Some(0) THEN th.cpu_temp ELSE th.system_temp
SystemUsable(si) == ~si.raises /\ si.success /\ si.temp # None
Plausible(raw) == 10000 < raw /\ raw < 110000
\* The files before the i-th were all read and rejected as implausible.
RejectedBefore(files, i) ==
    \A j \in 1..(i - 1) : files[j] # None /\ ~Plausible(files[j][1])

\* C12: get_temperature queries the thermal source first, the system-info
\* source only if the thermal one gave nothing usable, the sensor files only
\* if the system-info one gave nothing either, and returns the reading of the
\* first that succeeds; in the scan an implausible file is rejected and the
\* next candidate is opened, and the first plausible one is returned.
C12_FallbackOrder ==
    Resolved =>
      LET a == answers[1]
          scan == ~ThermalUsable(a.th) /\ ~SystemUsable(a.si) IN
        /\ queried \in {<<"thermal">>, <<"thermal", "system">>,
                        <<"thermal", "system", "sysfs">>}
        /\ Len(queried) >= 2 <=> ~ThermalUsable(a.th)
        /\ Len(queried) = 3 <=> scan
        /\ ThermalUsable(a.th)
              => temp = ThermalReading(a.th) /\ source = Some(THERMAL_API)
        /\ ~ThermalUsable(a.th) /\ SystemUsable(a.si)
              => temp = a.si.temp /\ source = Some(SYSTEM_API)
        /\ ~scan => opened = 0
        /\ \A i \in 1..Len(a.files) :
             (scan /\ RejectedBefore(a.files, i) /\ a.files[i] # None)
             => /\ opened >= i
                /\ Plausible(a.files[i][1])
                      => /\ temp = a.files[i]
                         /\ source = Some(sysfs_source(i))
                         /\ opened = i

C12_Witness ==
    /\ Resolved
    /\ queried = <<"thermal", "system", "sysfs">>
    /\ answers[1].th.raises
    /\ answers[1].files = <<Some(110000), Some(62000)>>
    /\ temp = Some(62000)
    /\ source = Some(sysfs_source(2))
    /\ opened = 2

\* C20: in the sensor-file scan, the first file reached that cannot be opened
\* or parsed ends the scan: no later file is opened and get_temperature reports
\* that no source is available, even if a later file holds a plausible value.
C20_ScanAborts ==
    Resolved =>
      LET a == answers[1] IN
        \A i \in 1..Len(a.files) :
          (/\ ~ThermalUsable(a.th)
           /\ ~SystemUsable(a.si)
           /\ RejectedBefore(a.files, i)
           /\ a.files[i] = None)
          => /\ opened = i
             /\ temp = None
             /\ source = Some(NO_SOURCE)
             /\ desired_mode = None
             /\ pc = "save"

C20_Witness ==
    /\ Resolved
    /\ answers[1].files = <<None, Some(62000)>>
    /\ queried = <<"thermal", "system", "sysfs">>
    /\ opened = 1
    /\ temp = None

\* C13 as stated: the status line shows the last_mode in effect before this
\* run's apply step, with the desired mode and whether a change was made.
C13_PreviousMode ==
    status # None
    => /\ status[1].current_mode = loaded.last_mode
       /\ Some(status[1].desired_mode) = desired_mode
       /\ status[1].changed = (apply_result = "ok")

\* C13, amended: the status line shows the last_mode held when the line is
\* printed ("Current mode"): the loaded last_mode when no apply call of this
\* run succeeded, the desired mode when one did; with the reading, the desired
\* mode and whether a change was made.
C13_CurrentMode ==
    status # None
    => /\ status[1].current_mode =
              IF apply_result = "ok" THEN desired_mode ELSE loaded.last_mode
       /\ Some(status[1].desired_mode) = desired_mode
       /\ status[1].changed = (apply_result = "ok")
       /\ Some(status[1].temp) = temp
       /\ Some(status[1].source) = source

C13_Witness ==
    /\ status # None
    /\ apply_result = "ok"
    /\ loaded.last_mode = Some(COOL_MODE)
    /\ desired_mode = Some(FULL_MODE)
    /\ status[1].current_mode = Some(FULL_MODE)
    /\ status[1].changed

\* C16: from the fresh state (last_mode None, last_change 0) a run in which
\* login succeeds and the temperature resolves makes the apply call with the
\* classified mode; if the call succeeds, the state saved has the desired mode,
\* the current time, the reading and its source.
C16_FirstRun ==
    (Governed /\ loaded.last_mode = None /\ loaded.last_change = 0)
    => /\ apply_call # None
       /\ Some(apply_call[1].mode) = desired_mode
       /\ apply_result = "ok"
             => /\ state = [last_mode |-> desired_mode, last_change |-> clock,
                            last_temp |-> temp, temp_source |-> source]
                /\ save_result = "ok" => disk = <<json_dump(state)>>

C16_Witness ==
    /\ pc = "done"
    /\ file_read = <<>>
    /\ temp = Some(62000)
    /\ source = Some(sysfs_source(1))
    /\ apply_result = "ok"
    /\ save_result = "ok"
    /\ load_state(disk) = [last_mode |-> Some(FULL_MODE), last_change |-> clock,
                           last_temp |-> Some(62000),
                           temp_source |-> Some(sysfs_source(1))]

\* C17: the state written by save_state and read by load_state in a fresh
\* controller is the state that was saved, in all four fields; for every state
\* the controller reaches, and for the file it did save.
C17_RoundTrip ==
    /\ load_state(save_state(disk, state, TRUE)) = state
    /\ (pc = "done" /\ save_result = "ok") => load_state(disk) = state

C17_Witness ==
    /\ pc = "done"
    /\ save_result = "ok"
    /\ state.last_mode # None
    /\ state.last_change > 0
    /\ state.last_temp # None
    /\ state.temp_source # None
    /\ state # loaded

\* C18: with one elapsed time for both tests, the apply call is made if and
\* only if elapsed >= 60 and (desired != last_mode or elapsed > 300).
C18_GovernorRules ==
    (Governed /\ elapsed_run = elapsed_gov)
    => (apply_call # None
          <=> /\ elapsed_run[1] >= 60
              /\ desired_mode # loaded.last_mode \/ elapsed_run[1] > 300)

C18_Witness ==
    /\ Governed
    /\ elapsed_run = Some(60)
    /\ elapsed_gov = Some(60)
    /\ desired_mode # loaded.last_mode
    /\ apply_call # None

\* C19: no run makes the apply call while the clock reads less than
\* last_change + MIN_MODE_CHANGE_INTERVAL, whatever the temperature; so a
\* last_change that lies after the clock (clock set back) suppresses every
\* change, and leaves last_mode and last_change as they are, until the clock
\* reaches last_change + MIN_MODE_CHANGE_INTERVAL.
C19_FutureStamp ==
    /\ apply_call # None
          => apply_call[1].at >= loaded.last_change + MIN_MODE_CHANGE_INTERVAL
    /\ (Governed /\ elapsed_gov[1] < MIN_MODE_CHANGE_INTERVAL)
          => apply_call = None /\ same_mode_time(state)

C19_Witness ==
    /\ pc = "done"
    /\ elapsed_gov # None
    /\ elapsed_gov[1] < 0
    /\ loaded.last_mode = Some(QUIET_MODE)
    /\ desired_mode = Some(FULL_MODE)
    /\ apply_call = None
    /\ same_mode_time(state)

\* C15: whenever the process crashes inside save_state (before, while or after
\* the temporary file is written, before the replace), and at every other
\* moment, STATE_FILE holds a complete state: the one this run found or the
\* one it saves, never a partial text.
C15_AtomicSave ==
    /\ disk \notin {EMPTY, PARTIAL}
    /\ disk = file_read \/ disk = <<json_dump(state)>>
    /\ (pc = "done" /\ save_result = "ok") => disk = save_state(file_read, state, TRUE)
    /\ pc \in SavePcs \cup {"crashed"} => disk = file_read

C15_Witness ==
    /\ pc = "crashed"
    /\ tmp = PARTIAL
    /\ disk # <<>>
    /\ disk = file_read
    /\ disk # <<json_dump(state)>>

\* A JSON object with the four members of the state and their types.
WellFormed(obj) ==
    /\ DOMAIN obj = {"last_mode", "last_change", "last_temp", "temp_source"}
    /\ obj["last_mode"][1] \in {"null", "string"}
    /\ obj["last_change"][1] = "number"
    /\ obj["last_temp"][1] \in {"null", "number"}
    /\ obj["temp_source"][1] \in {"null", "string"}

\* The state file is missing or its content is no well-formed state object.
Malformed(file) ==
    Len(file) # 1 \/ ~WellFormed(file[1])

\* C14: a run that finds the state file missing or not a well-formed state
\* object continues with the default state, and completes its cycle: with
\* login succeeding and the temperature resolved, the change decision is made.
C14_LoadDefaults ==
    (pc # "idle" /\ Malformed(file_read))
    => /\ loaded = DefaultState
       /\ (pc \in {"save", "done"} /\ sid # None /\ temp # None) => elapsed_gov # None

====
